---- MODULE Spec2Model ----
(***************************************************************************)
(* Model of src/dope247.py: a chat bot that downloads a video for a user,  *)
(* re-encodes it when it exceeds the upload limit and sends it back.       *)
(*                                                                         *)
(* One request is one call of VideoDownloaderBot.handle_message.  The      *)
(* handlers are coroutines on one event-loop thread: a handler gives the   *)
(* thread up only at an `await` (the chat replies and bot.send_video); the *)
(* calls _download_video, os.path.getsize and _compress_video are plain    *)
(* synchronous calls and keep the thread (variable running).               *)
(*                                                                         *)
(* Two specifications:                                                     *)
(*   Spec       the program as main() builds it: the Application is built  *)
(*              without concurrent updates, so it awaits the handler of    *)
(*              one update before it takes the next one from its queue;    *)
(*   SpecTasks  handle_message started as one task per message, the tasks  *)
(*              interleaving at their await points.                        *)
(* The non-ASCII pictograph that starts each reply text is left out of the *)
(* strings.                                                                *)
(***************************************************************************)
EXTENDS Integers, Sequences, FiniteSets, TLC

\* ---- bounds ----
NumUsers == 2
MaxMsgs == 3
MaxTasks == 2

\* ---- program constants ----
MAX_FILE_SIZE == 50 * 1024 * 1024
SUPPORTED_DOMAINS == <<"vimeo.com", "instagram.com", "tiktok.com", "dailymotion.com", "facebook.com", "xvideos.com">>
SCHEMES == <<"http://", "https://">>
CAPTION_LIMIT == 1024

Users == 1..NumUsers
\* the handle_message calls that exist at one time; the record of a call that
\* has returned is dropped and reused for a later message
Msgs == 1..MaxTasks

\* ---- inputs ----
\* texts a user may send (update.message.text)
Texts == {" https://vimeo.com/12345 ", "not a url"}
\* texts for the validation of _is_valid_url: a prefix, a host and a tail
Prefixes == {"http://", "https://", "ftp://", "", "Http://", "see http://"}
Hosts == {"vimeo.com", "www.tiktok.com", "example.com", "vimeo.co", "VIMEO.COM"}
Tails == {"", "/12345", "/?next=facebook.com", "/watch?v=1"}
UrlTexts == {p \o h \o t : p \in Prefixes, h \in Hosts, t \in Tails}
\* sizes os.path.getsize may report: below, at and above the limit
Sizes == {MAX_FILE_SIZE - 1, MAX_FILE_SIZE, MAX_FILE_SIZE + 1}
\* titles the extraction engine may report: none (info_dict has no 'title'), or
\* one longer than the caption limit
NoTitle == "<absent>"
\* a title of n characters
RECURSIVE LongTitle(_)
LongTitle(n) ==
    IF n = 0 THEN ""
    ELSE IF n % 2 = 1 THEN "x" \o LongTitle(n - 1)
    ELSE LET half == LongTitle(n \div 2) IN half \o half
Titles == {NoTitle, LongTitle(CAPTION_LIMIT + 1)}

\* ---- reply texts ----
WAIT_REPLY == "Please wait, still working on your previous download..."
INVALID_REPLY == "Please send a valid URL from supported sites."
PROGRESS_REPLY == "Downloading your video, please wait..."
DOWNLOAD_FAILED == "Failed to download. URL might be invalid."
TOO_LARGE == "Even after compression, the video is too large."

\* ---- exception messages of the collaborators (str(e)) ----
NoErr == "<none>"
NETWORK_ERROR == "NetworkError"
EXTRACTOR_ERROR == "ExtractorError"
FILE_NOT_FOUND == "FileNotFoundError"
CALLED_PROCESS_ERROR == "CalledProcessError"
PERMISSION_ERROR == "PermissionError"

\* ---- strings ----
\* str.startswith(prefix)
startswith(s, p) == Len(s) >= Len(p) /\ SubSeq(s, 1, Len(p)) = p

\* `sub in s`
contains(s, sub) == \E i \in 1..(Len(s) - Len(sub) + 1) : SubSeq(s, i, i + Len(sub) - 1) = sub

IsSpace(c) == c \in {" ", "\t", "\n", "\r"}

RECURSIVE lstrip(_)
lstrip(s) == IF Len(s) > 0 /\ IsSpace(SubSeq(s, 1, 1)) THEN lstrip(SubSeq(s, 2, Len(s))) ELSE s

RECURSIVE rstrip(_)
rstrip(s) == IF Len(s) > 0 /\ IsSpace(SubSeq(s, Len(s), Len(s))) THEN rstrip(SubSeq(s, 1, Len(s) - 1)) ELSE s

\* str.strip()
strip(s) == rstrip(lstrip(s))

\* a validation that looks for the domain at the start of the host only
is_valid_url_HostOnly(text) ==
    \E i \in 1..Len(SCHEMES), j \in 1..Len(SUPPORTED_DOMAINS) :
        startswith(text, SCHEMES[i] \o SUPPORTED_DOMAINS[j])

\* VideoDownloaderBot._is_valid_url
is_valid_url(text) ==
    /\ \E i \in 1..Len(SCHEMES) : startswith(text, SCHEMES[i])
    /\ \E i \in 1..Len(SUPPORTED_DOMAINS) : contains(text, SUPPORTED_DOMAINS[i])

\* info_dict.get('title', 'video')
get_title(t) == IF t = NoTitle THEN "video" ELSE t

\* the caption passed on whole
caption_of_Whole(title) == title

\* caption[:1024]
caption_of(title) == IF Len(title) > CAPTION_LIMIT THEN SubSeq(title, 1, CAPTION_LIMIT) ELSE title

\* f"Error: {e}"
error_text(e) == "Error: " \o e

\* ---- exceptions ----
Exc(type, m) == [type |-> type, msg |-> m]
NoExc == Exc("none", NoErr)

\* ---- state ----
VARIABLES
    req,               \* per message: the update and the locals of its handle_message call
    nmsgs,             \* number of messages the users have sent so far
    update_queue,      \* updates received and not yet handed to a handler
    active_downloads,  \* VideoDownloaderBot.active_downloads
    running            \* the handler that holds the event-loop thread in a synchronous call, 0 if none

vars == <<req, nmsgs, update_queue, active_downloads, running>>

\* positions of a handle_message call
\*   none           the message has not been sent
\*   queued         in the update queue
\*   reply_wait     awaiting reply_text, line 59
\*   reply_invalid  awaiting reply_text, line 63
\*   reply_progress awaiting reply_text, line 68
\*   download       inside _download_video, line 82
\*   size_check     before os.path.getsize, line 84
\*   compress       inside _compress_video, line 87
\*   size_recheck   before os.path.getsize, line 89
\*   open           inside _send_video, before open(), line 130
\*   send           awaiting bot.send_video, line 131
\*   reply_error    awaiting reply_text, line 72
\*   returning      handle_message has run to its end (the finally clause
\*                  included) and returns or passes its exception on
LifecyclePcs == {"reply_progress", "download", "size_check", "compress", "size_recheck", "open", "send",
                 "reply_error"}
AwaitPcs == {"reply_wait", "reply_invalid", "reply_progress", "send", "reply_error"}
IdlePcs == {"none", "queued"}

NoDir == [state |-> "none", files |-> {}]

\* the record of one handle_message call
\*   user_id, text          update.effective_user.id, update.message.text
\*   url                    the stripped text once the request is admitted
\*   temp_dir               the scoped directory: its state and the files in it
\*   file_path, file_size, title   locals of _process_video
\*   err                    the exception caught on line 70
\*   escaped                the exception that leaves handle_message
\*   sent                   the messages delivered to the chat by this call
\*   logged                 the logger.error lines of this call
\*   n_extract, n_compress, n_send   calls of _download_video, _compress_video, _send_video
\*   measured               the sizes os.path.getsize returned, in order
\*   send_raised            an exception was raised inside the try of _send_video
\*   compress_failed        the transcoding process could not be run or exited non-zero
\*   download_error         _download_video raised yt_dlp.utils.DownloadError
\*   caption                the caption argument of bot.send_video, line 134
\*   gate_held              the user was in active_downloads when the handler started
\*   arrived_busy           a lifecycle of the user was executing when the message was sent

InitReq == [pc |-> "none", user_id |-> 0, text |-> "", url |-> "",
            temp_dir |-> NoDir, file_path |-> "", file_size |-> 0, title |-> "", caption |-> "",
            err |-> NoExc, escaped |-> NoExc, sent |-> <<>>, logged |-> <<>>,
            n_extract |-> 0, n_compress |-> 0, n_send |-> 0, measured |-> <<>>,
            send_raised |-> FALSE, compress_failed |-> FALSE,
            download_error |-> FALSE,
            gate_held |-> FALSE,
            arrived_busy |-> FALSE]

Init ==
    /\ req = [m \in Msgs |-> InitReq]
    /\ nmsgs = 0
    /\ update_queue = <<>>
    /\ active_downloads = {}
    /\ running = 0

\* a lifecycle (the try/finally body of handle_message) is executing for user u
InFlight(u) == \E k \in Msgs : req[k].user_id = u /\ req[k].pc \in LifecyclePcs

TextMsg(body) == [kind |-> "text", body |-> body]
VideoMsg(body) == [kind |-> "video", body |-> body]

\* ---- the gate ----
\* the membership test left out
IsBusy_Unchecked(S, u) == FALSE

\* `user_id in self.active_downloads`
IsBusy(S, u) == u \in S

\* self.active_downloads.add(user_id)
Acquire(S, u) == S \cup {u}

\* the whole set cleared instead of one entry discarded
Release_All(S, u) == {}

\* self.active_downloads.discard(user_id)
Release(S, u) == S \ {u}

\* ---- the size checks ----
\* the comparison of line 85 written with >=
NeedsCompression_Inclusive(size) == size >= MAX_FILE_SIZE

\* `file_size > MAX_FILE_SIZE`, line 85
NeedsCompression(size) == size > MAX_FILE_SIZE

\* the second comparison left out
StillTooLarge_Unchecked(size) == FALSE

\* `file_size > MAX_FILE_SIZE`, line 91
StillTooLarge(size) == size > MAX_FILE_SIZE

\* ---- the scoped directory ----
\* tempfile.TemporaryDirectory().__enter__
TemporaryDirectoryEnter == [state |-> "exists", files |-> {}]

\* tempfile.TemporaryDirectory().__exit__: the directory and its files are removed
TemporaryDirectoryExit(d) == [state |-> "removed", files |-> {}]

\* ---- exception paths ----
\* the except clause of line 96 left out
ConvertDownloadError_Missing(e) == e

\* `except yt_dlp.utils.DownloadError: raise ValueError(...)`, lines 96-97
ConvertDownloadError(e) == IF e.type = "DownloadError" THEN Exc("ValueError", DOWNLOAD_FAILED) ELSE e

\* the except clause logging the exception without telling the user
CatchAtBoundary_Silent(r, e) ==
    [r EXCEPT !.err = e, !.logged = Append(@, "Download error: " \o e.msg), !.pc = "returning"]

\* `except Exception as e` of handle_message, lines 70-72: log, then await the error reply
CatchAtBoundary(r, e) ==
    [r EXCEPT !.err = e, !.logged = Append(@, "Download error: " \o e.msg), !.pc = "reply_error"]

\* _process_video is left: the with block ends and the locals are gone
ProcessVideoExit(r) ==
    [r EXCEPT !.temp_dir = TemporaryDirectoryExit(@), !.file_path = "", !.file_size = 0, !.title = "",
              !.caption = ""]

\* the directory removed at the end of the try block only, not on an exception
ProcessVideoRaises_NoCleanup(r, e) ==
    CatchAtBoundary(r, ConvertDownloadError(e))

\* an exception e raised inside the try block of _process_video: the except
\* clause of line 96, the exit of the with block, then the except clause of
\* handle_message
ProcessVideoRaises(r, e) ==
    CatchAtBoundary(ProcessVideoExit(r), ConvertDownloadError(e))

\* _process_video returns: the with block ends; handle_message leaves its try
\* block and ends (the finally clause acts on active_downloads)
ProcessVideoReturns(r) ==
    [ProcessVideoExit(r) EXCEPT !.pc = "returning"]

\* _send_video without its except clause
SendVideoCatches_Nothing(e) == FALSE

\* `except Exception as e` of _send_video, line 137
SendVideoCatches(e) == TRUE

\* a _send_video that tries once more after a first failure
SendVideoRaises_Retry(r, e) ==
    IF r.n_send < 2
    THEN [r EXCEPT !.logged = Append(@, "Send failed: " \o e.msg), !.send_raised = TRUE,
                   !.n_send = @ + 1, !.caption = "", !.pc = "open"]
    ELSE ProcessVideoReturns([r EXCEPT !.logged = Append(@, "Send failed: " \o e.msg), !.send_raised = TRUE])

\* an exception e raised inside the try block of _send_video
SendVideoRaises(r, e) ==
    IF SendVideoCatches(e)
    THEN ProcessVideoReturns([r EXCEPT !.logged = Append(@, "Send failed: " \o e.msg), !.send_raised = TRUE])
    ELSE ProcessVideoRaises([r EXCEPT !.send_raised = TRUE], e)

\* the call of _send_video on line 94, with the locals file_path and title
SendVideoCall(r) == [r EXCEPT !.n_send = @ + 1, !.pc = "open"]

\* the discard at the end of the try block instead of in a finally clause
GateAfter_NotFinally(S, r) == IF r.pc = "returning" /\ r.err = NoExc THEN Release(S, r.user_id) ELSE S

\* the gate after a step inside the try block of handle_message that left the
\* request as r: the finally clause of line 74 runs when handle_message ends
GateAfter(S, r) == IF r.pc = "returning" THEN Release(S, r.user_id) ELSE S

\* the event-loop thread after a step of request m: given up at an await only
ThreadAfter(m, r) == IF r.pc \in AwaitPcs THEN 0 ELSE m

\* ---- actions ----
\* user u sends the text message txt; the transport puts the update in the queue
Arrive(u, txt) ==
    /\ nmsgs < MaxMsgs
    /\ \E m \in Msgs :
        /\ req[m].pc = "none"
        /\ \A k \in 1..(m - 1) : req[k].pc # "none"
        /\ req' = [req EXCEPT ![m] = [InitReq EXCEPT !.pc = "queued", !.user_id = u, !.text = txt,
                                                     !.arrived_busy = InFlight(u)]]
        /\ update_queue' = Append(update_queue, m)
        /\ nmsgs' = nmsgs + 1
    /\ UNCHANGED <<active_downloads, running>>

\* handle_message with line 66 moved before the validation of line 62
handle_message_AcquireFirst(r, S) ==
    LET text == strip(r.text)
        r0 == [r EXCEPT !.gate_held = (r.user_id \in S)]
    IN
    IF IsBusy(S, r.user_id)
    THEN [r |-> [r0 EXCEPT !.pc = "reply_wait"], S |-> S]
    ELSE IF ~is_valid_url(text)
    THEN [r |-> [r0 EXCEPT !.pc = "reply_invalid"], S |-> Acquire(S, r.user_id)]
    ELSE [r |-> [r0 EXCEPT !.pc = "reply_progress", !.url = text], S |-> Acquire(S, r.user_id)]

\* handle_message from its start to its first await, for request r and gate S
handle_message(r, S) ==
    LET text == strip(r.text)
        r0 == [r EXCEPT !.gate_held = (r.user_id \in S)]
    IN
    IF IsBusy(S, r.user_id)
    THEN [r |-> [r0 EXCEPT !.pc = "reply_wait"], S |-> S]
    ELSE IF ~is_valid_url(text)
    THEN [r |-> [r0 EXCEPT !.pc = "reply_invalid"], S |-> S]
    ELSE [r |-> [r0 EXCEPT !.pc = "reply_progress", !.url = text], S |-> Acquire(S, r.user_id)]

\* the handler of the update at the head of the queue starts
StartHandler ==
    LET m == Head(update_queue)
        h == handle_message(req[m], active_downloads)
    IN  /\ req' = [req EXCEPT ![m] = h.r]
        /\ active_downloads' = h.S
        /\ update_queue' = Tail(update_queue)
        /\ UNCHANGED <<nmsgs, running>>

\* main(): the Application is built without concurrent updates and the
\* handler is registered as blocking, so the next update is taken only when
\* the handler of the previous one has ended
ProcessUpdate ==
    /\ update_queue # <<>>
    /\ running = 0
    /\ \A k \in Msgs : req[k].pc \in IdlePcs
    /\ StartHandler

\* one task per message: the next update is taken whenever the thread is free
ProcessUpdateConcurrent ==
    /\ update_queue # <<>>
    /\ running = 0
    /\ StartHandler

\* the reply of line 59 or line 63 returns or raises; handle_message returns
ReplyReturns(m) ==
    /\ req[m].pc \in {"reply_wait", "reply_invalid"}
    /\ running = 0
    /\ \E ok \in BOOLEAN :
        req' = [req EXCEPT ![m] =
                  IF ok THEN [@ EXCEPT !.pc = "returning",
                                       !.sent = Append(@, TextMsg(IF req[m].pc = "reply_wait"
                                                                  THEN WAIT_REPLY ELSE INVALID_REPLY))]
                  ELSE [@ EXCEPT !.pc = "returning", !.escaped = Exc("NetworkError", NETWORK_ERROR)]]
    /\ running' = m
    /\ UNCHANGED <<nmsgs, update_queue, active_downloads>>

\* the progress reply of line 68 returns or raises; on return _process_video
\* creates the directory and calls _download_video
ProgressReplyReturns(m) ==
    /\ req[m].pc = "reply_progress"
    /\ running = 0
    /\ \E ok \in BOOLEAN :
        LET r == IF ok
                 THEN [req[m] EXCEPT !.sent = Append(@, TextMsg(PROGRESS_REPLY)),
                                     !.temp_dir = TemporaryDirectoryEnter,
                                     !.n_extract = @ + 1,
                                     !.pc = "download"]
                 ELSE CatchAtBoundary(req[m], Exc("NetworkError", NETWORK_ERROR))
        IN  /\ req' = [req EXCEPT ![m] = r]
            /\ running' = ThreadAfter(m, r)
            /\ active_downloads' = GateAfter(active_downloads, r)
    /\ UNCHANGED <<nmsgs, update_queue>>

\* _download_video returns (title, file_path) or raises
DownloadReturns(m) ==
    /\ req[m].pc = "download"
    /\ running = m
    /\ \E out \in {"ok", "no_file", "DownloadError", "Exception"}, t \in Titles :
        LET r == CASE out = "ok" ->
                        [req[m] EXCEPT !.temp_dir.files = @ \cup {"download"}, !.file_path = "download",
                                       !.title = get_title(t), !.pc = "size_check"]
                   [] out = "no_file" ->
                        [req[m] EXCEPT !.file_path = "download",
                                       !.title = get_title(t), !.pc = "size_check"]
                   [] out = "DownloadError" ->
                        ProcessVideoRaises([req[m] EXCEPT !.download_error = TRUE],
                                           Exc("DownloadError", EXTRACTOR_ERROR))
                   [] OTHER ->
                        ProcessVideoRaises(req[m], Exc("Exception", EXTRACTOR_ERROR))
        IN  /\ req' = [req EXCEPT ![m] = r]
            /\ running' = ThreadAfter(m, r)
            /\ active_downloads' = GateAfter(active_downloads, r)
    /\ UNCHANGED <<nmsgs, update_queue>>

\* os.path.getsize of line 84 and the comparison of line 85
SizeCheck(m) ==
    /\ req[m].pc = "size_check"
    /\ running = m
    /\ \E s \in Sizes :
        LET r == IF req[m].file_path \notin req[m].temp_dir.files
                 THEN ProcessVideoRaises(req[m], Exc("OSError", FILE_NOT_FOUND))
                 ELSE IF NeedsCompression(s)
                 THEN [req[m] EXCEPT !.file_size = s, !.measured = Append(@, s),
                                     !.n_compress = @ + 1, !.pc = "compress"]
                 ELSE SendVideoCall([req[m] EXCEPT !.file_size = s, !.measured = Append(@, s)])
        IN  /\ req' = [req EXCEPT ![m] = r]
            /\ running' = ThreadAfter(m, r)
            /\ active_downloads' = GateAfter(active_downloads, r)
    /\ UNCHANGED <<nmsgs, update_queue>>

\* subprocess.run without check=True: a non-zero exit is not an exception
SubprocessRun_Unchecked(out) ==
    IF out = "fault" THEN Exc("OSError", FILE_NOT_FOUND) ELSE NoExc

\* subprocess.run(cmd, check=True), line 126: the exception it raises when the
\* binary cannot be started ("fault") or exits non-zero, NoExc on exit code 0
SubprocessRun(out) ==
    CASE out = "fault" -> Exc("OSError", FILE_NOT_FOUND)
      [] out = "nonzero" -> Exc("CalledProcessError", CALLED_PROCESS_ERROR)
      [] OTHER -> NoExc

\* lines 89-92 left out: the compressed file is delivered unmeasured
CompressReturns_NoRecheck(m) ==
    /\ req[m].pc = "compress"
    /\ running = m
    /\ \E out \in {"ok", "nonzero", "fault"} :
        LET e == SubprocessRun(out)
            r0 == [req[m] EXCEPT !.compress_failed = (out # "ok")]
            r == IF e = NoExc
                 THEN SendVideoCall([r0 EXCEPT !.temp_dir.files = @ \cup {"compressed"},
                                               !.file_path = "compressed"])
                 ELSE ProcessVideoRaises(r0, e)
        IN  /\ req' = [req EXCEPT ![m] = r]
            /\ running' = ThreadAfter(m, r)
            /\ active_downloads' = GateAfter(active_downloads, r)
    /\ UNCHANGED <<nmsgs, update_queue>>

\* _compress_video returns or raises; on return lines 88-89 follow
CompressReturns(m) ==
    /\ req[m].pc = "compress"
    /\ running = m
    /\ \E out \in {"ok", "nonzero", "fault"} :
        LET e == SubprocessRun(out)
            r0 == [req[m] EXCEPT !.compress_failed = (out # "ok")]
            r == IF e = NoExc
                 THEN [r0 EXCEPT !.temp_dir.files = IF out = "ok" THEN @ \cup {"compressed"} ELSE @,
                                 !.file_path = "compressed", !.pc = "size_recheck"]
                 ELSE ProcessVideoRaises(r0, e)
        IN  /\ req' = [req EXCEPT ![m] = r]
            /\ running' = ThreadAfter(m, r)
            /\ active_downloads' = GateAfter(active_downloads, r)
    /\ UNCHANGED <<nmsgs, update_queue>>

\* os.path.getsize of line 89 and the comparison of line 91
SizeRecheck(m) ==
    /\ req[m].pc = "size_recheck"
    /\ running = m
    /\ \E s \in Sizes :
        LET r == IF req[m].file_path \notin req[m].temp_dir.files
                 THEN ProcessVideoRaises(req[m], Exc("OSError", FILE_NOT_FOUND))
                 ELSE IF StillTooLarge(s)
                 THEN ProcessVideoRaises([req[m] EXCEPT !.file_size = s, !.measured = Append(@, s)],
                                         Exc("ValueError", TOO_LARGE))
                 ELSE SendVideoCall([req[m] EXCEPT !.file_size = s, !.measured = Append(@, s)])
        IN  /\ req' = [req EXCEPT ![m] = r]
            /\ running' = ThreadAfter(m, r)
            /\ active_downloads' = GateAfter(active_downloads, r)
    /\ UNCHANGED <<nmsgs, update_queue>>

\* open(file_path, 'rb') returns or raises; on return bot.send_video is awaited
OpenReturns(m) ==
    /\ req[m].pc = "open"
    /\ running = m
    /\ \E ok \in BOOLEAN :
        LET r == IF ok
                 THEN [req[m] EXCEPT !.caption = caption_of(req[m].title), !.pc = "send"]
                 ELSE SendVideoRaises(req[m], Exc("OSError", PERMISSION_ERROR))
        IN  /\ req' = [req EXCEPT ![m] = r]
            /\ running' = ThreadAfter(m, r)
            /\ active_downloads' = GateAfter(active_downloads, r)
    /\ UNCHANGED <<nmsgs, update_queue>>

\* bot.send_video returns or raises
SendVideoReturns(m) ==
    /\ req[m].pc = "send"
    /\ running = 0
    /\ \E ok \in BOOLEAN :
        LET r == IF ok
                 THEN ProcessVideoReturns([req[m] EXCEPT !.sent = Append(@, VideoMsg(req[m].caption))])
                 ELSE SendVideoRaises(req[m], Exc("NetworkError", NETWORK_ERROR))
        IN  /\ req' = [req EXCEPT ![m] = r]
            /\ running' = ThreadAfter(m, r)
            /\ active_downloads' = GateAfter(active_downloads, r)
    /\ UNCHANGED <<nmsgs, update_queue>>

\* the error reply of line 72 returns or raises; then the finally clause
ErrorReplyReturns(m) ==
    /\ req[m].pc = "reply_error"
    /\ running = 0
    /\ \E ok \in BOOLEAN :
        LET r == IF ok
                 THEN [req[m] EXCEPT !.sent = Append(@, TextMsg(error_text(req[m].err.msg))),
                                     !.pc = "returning"]
                 ELSE [req[m] EXCEPT !.escaped = Exc("NetworkError", NETWORK_ERROR), !.pc = "returning"]
        IN  /\ req' = [req EXCEPT ![m] = r]
            /\ running' = ThreadAfter(m, r)
            /\ active_downloads' = GateAfter(active_downloads, r)
    /\ UNCHANGED <<nmsgs, update_queue>>

\* handle_message returns, or its exception passes to the Application; the
\* call and its locals are gone and the thread is free
Return(m) ==
    /\ req[m].pc = "returning"
    /\ running = m
    /\ req' = [req EXCEPT ![m] = InitReq]
    /\ running' = 0
    /\ UNCHANGED <<nmsgs, update_queue, active_downloads>>

\* the steps of the handlers after their start
HandlerStep ==
    \E m \in Msgs :
        \/ ReplyReturns(m)
        \/ ProgressReplyReturns(m)
        \/ DownloadReturns(m)
        \/ SizeCheck(m)
        \/ CompressReturns(m)
        \/ SizeRecheck(m)
        \/ OpenReturns(m)
        \/ SendVideoReturns(m)
        \/ ErrorReplyReturns(m)
        \/ Return(m)

Send == \E u \in Users, txt \in Texts : Arrive(u, txt)

Next == Send \/ ProcessUpdate \/ HandlerStep

Spec == Init /\ [][Next]_vars

NextTasks == Send \/ ProcessUpdateConcurrent \/ HandlerStep

SpecTasks == Init /\ [][NextTasks]_vars

\* the event loop runs every task that is ready, and every external call
\* returns or raises: no step of main's dispatch or of a handler stays
\* possible for ever without being taken
SpecFair == Spec /\ WF_vars(ProcessUpdate) /\ WF_vars(HandlerStep)

\* one text message, drawn from UrlTexts, has arrived and nothing else has
\* happened
InitValidate ==
    /\ \E u \in Users, txt \in UrlTexts :
        req = [m \in Msgs |-> IF m = 1
                              THEN [InitReq EXCEPT !.pc = "queued", !.user_id = u, !.text = txt]
                              ELSE InitReq]
    /\ nmsgs = 1
    /\ update_queue = <<1>>
    /\ active_downloads = {}
    /\ running = 0

\* the handling of that one message under main's dispatch
NextValidate == ProcessUpdate \/ HandlerStep

SpecValidate == InitValidate /\ [][NextValidate]_vars

\* ---- properties ----
\* the handle_message calls of user u that are inside the try/finally body
LifecyclesOf(u) == {m \in Msgs : req[m].user_id = u /\ req[m].pc \in LifecyclePcs}

\* the request was admitted: it passed both early returns of handle_message
Admitted(r) == r.url # ""

\* C1: for every user at most one lifecycle is executing, and the user is in
\* active_downloads whenever one is, under any interleaving of the handlers
\* at their await points
C1_SingleFlight ==
    \A u \in Users :
        /\ Cardinality(LifecyclesOf(u)) <= 1
        /\ LifecyclesOf(u) # {} => u \in active_downloads

\* a second handler of the same user has started while the first is suspended
\* inside its lifecycle, and took the busy branch
C1_Witness ==
    \E m, k \in Msgs :
        /\ m # k
        /\ req[m].user_id = req[k].user_id
        /\ req[m].pc \in AwaitPcs \cap LifecyclePcs
        /\ req[k].pc = "reply_wait"

\* no user stays in active_downloads without a lifecycle executing for it
NoLeak == \A u \in active_downloads : LifecyclesOf(u) # {}

\* the step that ends a lifecycle leaves its user out of active_downloads
ReleasedAtEnd ==
    \A m \in Msgs :
        (req[m].pc \in LifecyclePcs /\ req'[m].pc = "returning") => req[m].user_id \notin active_downloads'

\* a valid message handled while no lifecycle of its user is executing is admitted
AdmittedWhenFree ==
    \A m \in Msgs :
        (/\ req[m].pc = "queued"
         /\ req'[m].pc # "queued"
         /\ ~InFlight(req[m].user_id)
         /\ is_valid_url(strip(req[m].text))) => req'[m].pc = "reply_progress"

\* C2: every lifecycle that added its user to active_downloads has removed it
\* when handle_message ends, however the lifecycle ends, and the next valid
\* message of that user is then admitted
C2_AlwaysReleased == [](NoLeak) /\ [][ReleasedAtEnd /\ AdmittedWhenFree]_vars

\* a lifecycle has ended with its error reply failing while the next valid
\* message of the same user waits to be handled
C2_Witness ==
    \E m, k \in Msgs :
        /\ m # k
        /\ req[m].user_id = req[k].user_id
        /\ req[k].pc = "returning" /\ Admitted(req[k]) /\ req[k].escaped # NoExc
        /\ req[m].pc = "queued" /\ is_valid_url(strip(req[m].text))

\* the messages of a request other than the progress notice
Outcomes(sent) == SelectSeq(sent, LAMBDA x : x # TextMsg(PROGRESS_REPLY))

\* C3: a message that arrives while an earlier request of its user is in
\* flight is rejected as busy: it is not held back and then validated or
\* admitted, and no extraction, compression or delivery runs for it
C3_RejectedImmediately ==
    \A m \in Msgs :
        req[m].arrived_busy =>
            /\ req[m].pc \in {"queued", "reply_wait", "returning"}
            /\ ~Admitted(req[m])
            /\ req[m].n_extract = 0 /\ req[m].n_compress = 0 /\ req[m].n_send = 0

\* C4: no fault raised after the gate was acquired escapes handle_message;
\* each is turned into one error text sent to the user
C4_NoFaultEscapes ==
    \A m \in Msgs :
        (Admitted(req[m]) /\ req[m].pc = "returning") =>
            /\ req[m].escaped = NoExc
            /\ req[m].err # NoExc => Outcomes(req[m].sent) = <<TextMsg(error_text(req[m].err.msg))>>

\* C5: when the lifecycle of a request that created a temporary directory has
\* ended, with any outcome, the directory and its files no longer exist
C5_TempDirRemoved ==
    \A m \in Msgs :
        (req[m].pc = "returning" /\ req[m].temp_dir.state # "none") =>
            /\ req[m].temp_dir.state = "removed"
            /\ req[m].temp_dir.files = {}

\* a lifecycle that had created its directory has ended on an exception
C5_Witness ==
    \E m \in Msgs :
        /\ req[m].pc = "returning"
        /\ req[m].n_extract > 0
        /\ req[m].err # NoExc
        /\ req[m].temp_dir.state = "removed"

\* a step of the program for a user other than u
StepOfOtherUser(u) ==
    \/ update_queue # <<>> /\ req[Head(update_queue)].user_id # u /\ ProcessUpdate
    \/ \E k \in Msgs :
        /\ req[k].user_id # u
        /\ \/ ReplyReturns(k)
           \/ ProgressReplyReturns(k)
           \/ SendVideoReturns(k)
           \/ ErrorReplyReturns(k)

\* C6: while a request is in extraction or in compression, the waiting
\* handlers and messages of the other users can take steps
C6_OthersCanStep ==
    \A m \in Msgs :
        (/\ req[m].pc \in {"download", "compress"}
         /\ \E k \in Msgs : req[k].pc \in AwaitPcs \cup {"queued"} /\ req[k].user_id # req[m].user_id)
        => ENABLED StepOfOtherUser(req[m].user_id)

\* C7: _send_video is only called with a file whose measured size is at most
\* MAX_FILE_SIZE; when the downloaded and the compressed file are both larger,
\* the lifecycle fails with the too-large error and no delivery is attempted
C7_NoOversizeDelivery ==
    \A m \in Msgs :
        /\ req[m].pc \in {"open", "send"} =>
            /\ req[m].measured # <<>>
            /\ req[m].file_size = req[m].measured[Len(req[m].measured)]
            /\ req[m].file_size <= MAX_FILE_SIZE
        /\ (/\ Len(req[m].measured) = 2
            /\ req[m].measured[1] > MAX_FILE_SIZE
            /\ req[m].measured[2] > MAX_FILE_SIZE) =>
            /\ req[m].pc \in {"reply_error", "returning"}
            /\ req[m].err = Exc("ValueError", TOO_LARGE)
            /\ req[m].n_send = 0

\* a lifecycle whose download and compressed file were both over the limit
\* has ended with the too-large error text sent
C7_Witness ==
    \E m \in Msgs :
        /\ req[m].pc = "returning"
        /\ Len(req[m].measured) = 2
        /\ req[m].measured[1] > MAX_FILE_SIZE /\ req[m].measured[2] > MAX_FILE_SIZE
        /\ Outcomes(req[m].sent) = <<TextMsg(error_text(TOO_LARGE))>>

\* C8: when the downloaded file measures at most MAX_FILE_SIZE, the limit
\* itself included, _compress_video is never called and _send_video is called
\* next, with the downloaded file
C8_NoCompressionWithinLimit ==
    \A m \in Msgs :
        (req[m].measured # <<>> /\ req[m].measured[1] <= MAX_FILE_SIZE) =>
            /\ req[m].n_compress = 0
            /\ Len(req[m].measured) = 1
            /\ req[m].n_send = 1
            /\ req[m].pc \in {"open", "send", "returning"}
            /\ req[m].pc \in {"open", "send"} => req[m].file_path = "download"

\* a downloaded file of exactly MAX_FILE_SIZE is being sent
C8_Witness ==
    \E m \in Msgs :
        /\ req[m].pc = "send"
        /\ req[m].measured = <<MAX_FILE_SIZE>>
        /\ req[m].file_path = "download"

C10_DeliveryFailureSwallowed ==
    \A m \in Msgs :
        req[m].send_raised =>
            /\ req[m].pc = "returning"
            /\ req[m].err = NoExc /\ req[m].escaped = NoExc
            /\ Outcomes(req[m].sent) = <<>>
            /\ req[m].logged # <<>> /\ startswith(req[m].logged[Len(req[m].logged)], "Send failed: ")
            /\ req[m].temp_dir = [state |-> "removed", files |-> {}]
            /\ req[m].user_id \notin active_downloads

\* bot.send_video has failed for a request
C10_Witness ==
    \E m \in Msgs :
        /\ req[m].send_raised
        /\ req[m].n_send = 1
        /\ req[m].logged = <<"Send failed: " \o NETWORK_ERROR>>

\* C11: when _compress_video fails (the process exits non-zero or cannot be
\* run), the lifecycle fails with that exception as its reason, and neither
\* the second size check nor a delivery happens for the request
C11_CompressionFailureFails ==
    \A m \in Msgs :
        req[m].compress_failed =>
            /\ req[m].pc \in {"reply_error", "returning"}
            /\ req[m].err \in {Exc("CalledProcessError", CALLED_PROCESS_ERROR), Exc("OSError", FILE_NOT_FOUND)}
            /\ req[m].n_compress = 1
            /\ Len(req[m].measured) = 1
            /\ req[m].n_send = 0
            /\ req[m].temp_dir.state = "removed"

\* the transcoding process exited non-zero and the lifecycle has ended with
\* the error text of that exception sent
C11_Witness ==
    \E m \in Msgs :
        /\ req[m].compress_failed
        /\ req[m].pc = "returning"
        /\ Outcomes(req[m].sent) = <<TextMsg(error_text(CALLED_PROCESS_ERROR))>>

\* what holds of a request whose extraction raised a download fault, up to
\* the error reply: the fixed cause, no compression, no delivery, no directory
DownloadFaultHandled(r) ==
    /\ r.pc \in {"reply_error", "returning"}
    /\ r.err = Exc("ValueError", DOWNLOAD_FAILED)
    /\ r.n_compress = 0 /\ r.n_send = 0 /\ r.measured = <<>>
    /\ r.temp_dir = [state |-> "removed", files |-> {}]
    /\ r.pc = "returning" => r.user_id \notin active_downloads

InvalidFromFreeUser(r) ==
    /\ r.pc \notin IdlePcs
    /\ ~r.gate_held
    /\ ~is_valid_url(strip(r.text))

\* what holds of such a request whatever becomes of its reply: no extraction,
\* no temporary directory, no gate entry
InvalidNotProcessed(r) ==
    /\ r.pc \in {"reply_invalid", "returning"}
    /\ r.n_extract = 0
    /\ r.temp_dir = NoDir
    /\ r.url = ""
    /\ r.pc = "returning" => r.user_id \notin active_downloads

FirstUnits(s, n) == IF Len(s) <= n THEN s ELSE SubSeq(s, 1, n)

\* request r was extracted and its file measured within the limit
WithinLimit(r) == r.measured # <<>> /\ r.measured[1] <= MAX_FILE_SIZE

\* C14: a request whose extracted file is within the limit is not compressed
\* and gets exactly one delivery attempt, whose caption is the first 1024
\* units of the title; no request gets more than one delivery attempt
C14_OneDeliveryTruncatedCaption ==
    \A m \in Msgs :
        /\ req[m].n_send <= 1
        /\ req[m].pc = "send" =>
            /\ req[m].caption = FirstUnits(req[m].title, CAPTION_LIMIT)
            /\ Len(req[m].caption) <= CAPTION_LIMIT
        /\ WithinLimit(req[m]) =>
            /\ req[m].n_compress = 0
            /\ req[m].n_send = 1
            /\ Len(req[m].measured) = 1

\* a file within the limit, with a title longer than the caption limit, is
\* being delivered uncompressed
C14_Witness ==
    \E m \in Msgs :
        /\ WithinLimit(req[m])
        /\ req[m].pc = "send"
        /\ Len(req[m].title) > CAPTION_LIMIT
        /\ Len(req[m].caption) = CAPTION_LIMIT
        /\ req[m].n_compress = 0

\* text begins with one of the two schemes
BeginsWithScheme(text) ==
    \/ Len(text) >= 7 /\ SubSeq(text, 1, 7) = "http://"
    \/ Len(text) >= 8 /\ SubSeq(text, 1, 8) = "https://"

\* some suffix of text begins with one of the supported domains
MentionsDomain(text) ==
    \E k \in 0..Len(text) :
        LET rest == SubSeq(text, k + 1, Len(text)) IN
        \E d \in {"vimeo.com", "instagram.com", "tiktok.com", "dailymotion.com", "facebook.com", "xvideos.com"} :
            Len(rest) >= Len(d) /\ SubSeq(rest, 1, Len(d)) = d

\* C15: _is_valid_url is true exactly of the texts that begin with http:// or
\* https:// and contain a supported domain anywhere, and evaluating it changes
\* nothing: a text it rejects leaves no trace but the handler's position
C15_ValidIffSchemeAndDomain ==
    \A m \in Msgs :
        (req[m].pc \notin IdlePcs /\ ~req[m].gate_held) =>
            LET text == strip(req[m].text) IN
            /\ is_valid_url(text) <=> (BeginsWithScheme(text) /\ MentionsDomain(text))
            /\ Admitted(req[m]) <=> (BeginsWithScheme(text) /\ MentionsDomain(text))
            /\ req[m].pc = "reply_invalid" =>
                /\ req[m] = [InitReq EXCEPT !.pc = "reply_invalid", !.user_id = req[m].user_id,
                                            !.text = req[m].text]
                /\ active_downloads = {}

\* a text whose only supported domain is in a query parameter has been admitted
C15_Witness ==
    \E m \in Msgs :
        /\ req[m].text = "http://example.com/?next=facebook.com"
        /\ req[m].pc = "reply_progress"
        /\ req[m].url = req[m].text

\* the state of the request state machine that the handler position of r stands for
StateOf(r) ==
    CASE r.pc = "none" -> "NONE"
      [] r.pc = "queued" -> "RECEIVED"
      [] r.pc = "reply_progress" -> "VALIDATING"
      [] r.pc = "download" -> "DOWNLOADING"
      [] r.pc = "size_check" -> "SIZE_CHECK"
      [] r.pc = "compress" -> "COMPRESSING"
      [] r.pc = "size_recheck" -> "SIZE_RECHECK"
      [] r.pc \in {"open", "send"} -> "DELIVERING"
      [] r.pc \in {"reply_wait", "reply_invalid", "reply_error"} -> "FAILED"
      [] OTHER -> IF Admitted(r) /\ r.err = NoExc THEN "DONE" ELSE "FAILED"

\* the transitions of the request state machine; NONE stands for no request:
\* a message arrives, and the handler call of an ended request is gone
Transitions ==
    {<<"NONE", "RECEIVED">>, <<"RECEIVED", "VALIDATING">>, <<"VALIDATING", "DOWNLOADING">>,
     <<"DOWNLOADING", "SIZE_CHECK">>, <<"SIZE_CHECK", "COMPRESSING">>, <<"SIZE_CHECK", "DELIVERING">>,
     <<"COMPRESSING", "SIZE_RECHECK">>, <<"SIZE_RECHECK", "DELIVERING">>, <<"DELIVERING", "DONE">>,
     <<"DONE", "NONE">>, <<"FAILED", "NONE">>}
    \cup {<<s, "FAILED">> : s \in {"RECEIVED", "VALIDATING", "DOWNLOADING", "SIZE_CHECK", "COMPRESSING",
                                  "SIZE_RECHECK", "DELIVERING"}}

\* what each state of a request presupposes
StateGuards(r) ==
    /\ r.pc = "download" => (r.n_extract = 1 /\ is_valid_url(r.url) /\ r.url = strip(r.text))
    /\ r.n_extract > 0 => Admitted(r)
    /\ r.pc = "compress" => (Len(r.measured) = 1 /\ r.measured[1] > MAX_FILE_SIZE)
    /\ r.n_compress > 0 => (r.measured # <<>> /\ r.measured[1] > MAX_FILE_SIZE)
    /\ r.pc \in {"open", "send"} =>
        /\ r.n_extract = 1
        /\ r.file_path \in r.temp_dir.files
        /\ r.measured # <<>>
        /\ r.measured[Len(r.measured)] <= MAX_FILE_SIZE
        /\ Len(r.measured) = r.n_compress + 1

\* C16: a request moves along the transitions of the state machine only;
\* extraction presupposes a validated URL, compression a first size check
\* over the limit, delivery a successful extraction and a last size check
\* within the limit; nothing follows DONE or FAILED but the end of the call
C16_LifecycleOrder ==
    /\ [](\A m \in Msgs : StateGuards(req[m]))
    /\ [][\A m \in Msgs :
            \/ StateOf(req'[m]) = StateOf(req[m])
            \/ <<StateOf(req[m]), StateOf(req'[m])>> \in Transitions]_vars

\* a request has gone the long way: compressed, measured again, delivered
C16_Witness ==
    \E m \in Msgs :
        /\ StateOf(req[m]) = "DONE"
        /\ req[m].n_compress = 1
        /\ Len(req[m].measured) = 2
        /\ Outcomes(req[m].sent) # <<>>

\* C17: under fair scheduling, with every external call returning or
\* failing, every admitted request comes to its end, its user leaves
\* active_downloads, and no step is taken twice for one request
C17_RunsToCompletion ==
    /\ [](\A m \in Msgs : req[m].n_extract <= 1 /\ req[m].n_compress <= 1 /\ req[m].n_send <= 1)
    /\ \A m \in Msgs : (req[m].pc \in LifecyclePcs) ~> (req[m].pc = "returning")
    /\ \A u \in Users : (u \in active_downloads) ~> (u \notin active_downloads)

\* an admitted request has failed at the second size check and its user is free
C17_Witness ==
    \E m \in Msgs :
        /\ Admitted(req[m])
        /\ req[m].pc = "returning"
        /\ req[m].err = Exc("ValueError", TOO_LARGE)
        /\ req[m].user_id \notin active_downloads

\* the users whose membership of active_downloads differs between S and T
Changed(S, T) == (S \ T) \cup (T \ S)

Rejected(r) == r.pc \in {"reply_wait", "reply_invalid"}

\* a step of the handler of request m that rejects it or ends its rejection
RejectionStep(m) ==
    \/ req[m].pc = "queued" /\ Rejected(req'[m])
    \/ Rejected(req[m]) /\ req'[m] # req[m]

\* the steps of rejected messages leave active_downloads as it was
RejectionKeepsGate == \A m \in Msgs : RejectionStep(m) => active_downloads' = active_downloads

\* C19: handling a message that is rejected as busy or as invalid leaves
\* active_downloads unchanged, and every message sent while a request of its
\* user is in flight, the third like the second, is rejected as busy
C19_RejectionKeepsGate ==
    /\ [][RejectionKeepsGate]_vars
    /\ [](\A m \in Msgs :
            (req[m].arrived_busy /\ req[m].pc \notin IdlePcs) =>
                (req[m].gate_held /\ ~Admitted(req[m]) /\ req[m].pc \in {"reply_wait", "returning"}))

\* the order of the cleanup inside one request: the directory and the file
\* are there while _send_video runs, the directory is gone when the error
\* reply is sent and when the gate is released, and the gate is held while
\* the error reply is sent
CleanupOrder(r) ==
    /\ r.pc \in {"open", "send"} => (r.temp_dir.state = "exists" /\ r.file_path \in r.temp_dir.files)
    /\ r.pc = "reply_error" => (r.temp_dir.state # "exists" /\ r.user_id \in active_downloads)
    /\ (Admitted(r) /\ r.pc = "returning") => (r.temp_dir.state # "exists" /\ r.user_id \notin active_downloads)

\* C20: the cleanup of a request is ordered as CleanupOrder says, and a
\* message of the user that waits while the error reply is being sent is
\* handled then and rejected as busy
C20_CleanupOrder ==
    \A m \in Msgs :
        /\ CleanupOrder(req[m])
        /\ (/\ req[m].pc = "reply_error"
            /\ update_queue # <<>>
            /\ req[Head(update_queue)].user_id = req[m].user_id) =>
                /\ ENABLED ProcessUpdate
                /\ handle_message(req[Head(update_queue)], active_downloads).r.pc = "reply_wait"
====
